---------------------------- MODULE Spec2Model ----------------------------
(***************************************************************************)
(* Model of lambda-function/lambda_function.py: an S3-triggered handler    *)
(* that reads an object's head metadata, probes image dimensions for image *)
(* keys, and writes a JSON metadata object back to the bucket.             *)
(*                                                                         *)
(* A string the code inspects character by character (an object key) is   *)
(* taken apart into a sequence of one-character strings by Chars and put  *)
(* back together by Join.  Byte sizes                                      *)
(* are little-endian sequences of base-1024 digits, so that sizes up to    *)
(* the petabyte range stay inside the checker's integers; dividing by      *)
(* 1024.0 is exact in binary floating point for every size below 2^53, so  *)
(* the running value of format_bytes is the exact rational N / 1024^k.     *)
(***************************************************************************)
EXTENDS Integers, Sequences, FiniteSets, TLC

VARIABLES objects, tmp, now, log, input, output

vars == <<objects, tmp, now, log, input, output>>

(***************************************************************************)
(* Bounds of the model.                                                    *)
(***************************************************************************)
MaxInvocations == 2

MaxTopDigit == 1

(***************************************************************************)
(* Characters and str.lower().                                             *)
(***************************************************************************)
LowerChars ==
  <<"a","b","c","d","e","f","g","h","i","j","k","l","m",
    "n","o","p","q","r","s","t","u","v","w","x","y","z">>

UpperChars ==
  <<"A","B","C","D","E","F","G","H","I","J","K","L","M",
    "N","O","P","Q","R","S","T","U","V","W","X","Y","Z">>

UpperSet == {UpperChars[i] : i \in 1..Len(UpperChars)}

LowerChar(c) ==
  IF c \in UpperSet
  THEN LowerChars[CHOOSE i \in 1..Len(UpperChars) : UpperChars[i] = c]
  ELSE c

lower(s) == [i \in 1..Len(s) |-> LowerChar(s[i])]

endswith(s, suffix) ==
  /\ Len(suffix) <= Len(s)
  /\ SubSeq(s, Len(s) - Len(suffix) + 1, Len(s)) = suffix

(***************************************************************************)
(* is_image (lines 98-101).                                                *)
(***************************************************************************)
image_extensions ==
  << <<".","j","p","g">>, <<".","j","p","e","g">>, <<".","p","n","g">>,
     <<".","g","i","f">>, <<".","b","m","p">>, <<".","w","e","b","p">> >>

\* is_image without the lower(): the comparison is case-sensitive.
is_image_CaseSensitive(filename) ==
  \E i \in 1..Len(image_extensions) : endswith(filename, image_extensions[i])

is_image(filename) ==
  \E i \in 1..Len(image_extensions) :
     endswith(lower(filename), image_extensions[i])

(***************************************************************************)
(* format_bytes (lines 90-96).  size is a sequence of base-1024 digits,    *)
(* least significant first; after k divisions by 1024.0 the running value  *)
(* is size / 1024^k.                                                       *)
(***************************************************************************)
Kilo == 1024

Units == <<"B", "KB", "MB", "GB", "TB">>

Digit(size, i) == IF i <= Len(size) THEN size[i] ELSE 0

\* floor(size / 1024^k): the digits from position k+1 upward.
RECURSIVE Whole(_, _)
Whole(size, k) ==
  IF k >= Len(size) THEN 0
  ELSE Digit(size, k + 1) + Kilo * Whole(size, k + 1)

\* `size < 1024.0' for the running value size / 1024^k.
Below1024(size, k) == \A i \in (k + 2)..Len(size) : size[i] = 0

\* 100 * (fractional part of size / 1024^k), by long multiplication over the
\* k low digits: whole hundredths in `carry', the rest in `rem' (base 1024,
\* least significant first).
RECURSIVE Times100(_, _, _, _)
Times100(size, k, i, acc) ==
  IF i > k THEN acc
  ELSE LET t == Digit(size, i) * 100 + acc.carry
       IN  Times100(size, k, i + 1,
                    [carry |-> t \div Kilo, rem |-> Append(acc.rem, t % Kilo)])

\* The `.2f' conversion of size / 1024^k: correctly rounded, ties to even.
Round2(size, k) ==
  LET m    == Times100(size, k, 1, [carry |-> 0, rem |-> <<>>])
      top  == IF k = 0 THEN 0 ELSE m.rem[k]
      rest == \E i \in 1..(k - 1) : m.rem[i] # 0
      up   == \/ top > Kilo \div 2
              \/ top = Kilo \div 2 /\ (rest \/ m.carry % 2 = 1)
      h    == m.carry + (IF up THEN 1 ELSE 0)
  IN  IF h = 100 THEN [whole |-> Whole(size, k) + 1, cents |-> 0]
      ELSE [whole |-> Whole(size, k), cents |-> h]

TwoDigits(n) == IF n < 10 THEN "0" \o ToString(n) ELSE ToString(n)

\* f"{size:.2f} {unit}"
Fmt(size, k, unit) ==
  LET r == Round2(size, k)
  IN  [text  |-> ToString(r.whole) \o "." \o TwoDigits(r.cents) \o " " \o unit,
       whole |-> r.whole, cents |-> r.cents, unit |-> unit]

RECURSIVE FormatLoop(_, _)
FormatLoop(size, k) ==
  IF k = Len(Units) THEN Fmt(size, k, "PB")
  ELSE IF Below1024(size, k) THEN Fmt(size, k, Units[k + 1])
  ELSE FormatLoop(size, k + 1)

format_bytes(size) == FormatLoop(size, 0)

(***************************************************************************)
(* Sample sizes: every digit pattern over DigitSamples below 1024^5 times  *)
(* a top (petabyte) digit of at most MaxTopDigit.                          *)
(***************************************************************************)
DigitSamples == {0, 1, 128, 1023}

Sizes ==
  {<<a, b, c, d, e, f>> :
      a \in DigitSamples, b \in DigitSamples, c \in {0, 1, 1023},
      d \in {0, 1}, e \in {0, 1}, f \in 0..MaxTopDigit}

(***************************************************************************)
(* os.path.basename and os.path.splitext (posixpath), used at lines 43 and *)
(* 62.  splitext splits at the last dot of the last path component, unless *)
(* that component has only leading dots before it.                         *)
(***************************************************************************)
\* p.rfind(c) + 1: the position of the last c in p, 0 when there is none.
rfind(p, c) ==
  IF \E i \in 1..Len(p) : p[i] = c
  THEN CHOOSE i \in 1..Len(p) : p[i] = c /\ \A j \in (i + 1)..Len(p) : p[j] # c
  ELSE 0

basename(p) == SubSeq(p, rfind(p, "/") + 1, Len(p))

splitext(p) ==
  LET sepIndex == rfind(p, "/")
      dotIndex == rfind(p, ".")
  IN  IF /\ dotIndex > sepIndex
         /\ \E i \in (sepIndex + 1)..(dotIndex - 1) : p[i] # "."
      THEN <<SubSeq(p, 1, dotIndex - 1), SubSeq(p, dotIndex, Len(p))>>
      ELSE <<p, <<>>>>

(***************************************************************************)
(* The object keys of the model, each with its characters.                 *)
(***************************************************************************)
KeyTable ==
  {<<"docs/report.pdf",
     <<"d","o","c","s","/","r","e","p","o","r","t",".","p","d","f">>>>,
   <<"v1.2/notes", <<"v","1",".","2","/","n","o","t","e","s">>>>,
   <<".env", <<".","e","n","v">>>>,
   <<"photos/cat.jpg",
     <<"p","h","o","t","o","s","/","c","a","t",".","j","p","g">>>>,
   <<"photos/cat.PNG",
     <<"p","h","o","t","o","s","/","c","a","t",".","P","N","G">>>>}

Keys == {entry[1] : entry \in KeyTable}

Chars(key) == (CHOOSE entry \in KeyTable : entry[1] = key)[2]

RECURSIVE Join(_)
Join(chars) == IF chars = <<>> THEN "" ELSE Head(chars) \o Join(Tail(chars))

\* f"/tmp/{os.path.basename(file_key)}"
DownloadPath(file_key) == "/tmp/" \o Join(basename(Chars(file_key)))

\* The output key built from the whole key, extension kept.
MetadataKey_KeepExtension(file_key) ==
  "metadata/" \o file_key \o "_metadata.json"

\* f"metadata/{os.path.splitext(file_key)[0]}_metadata.json"
MetadataKey(file_key) ==
  "metadata/" \o Join(splitext(Chars(file_key))[1]) \o "_metadata.json"

(***************************************************************************)
(* The trigger events, the source objects and the failures of the          *)
(* collaborators (S3, the file system) that one invocation can meet.       *)
(***************************************************************************)
Bucket == "uploads"

KeyReport == "docs/report.pdf"

KeyCatJpg == "photos/cat.jpg"

KeyCatPng == "photos/cat.PNG"

\* The object size the notification of each key carries.
SizeOf(key) ==
  IF key = KeyReport THEN <<1023, 1023>>
  ELSE IF key \in {KeyCatJpg, KeyCatPng} THEN <<512, 2>>
  ELSE <<0>>

S3Record(key) == [bucket |-> Bucket, key |-> key, size |-> SizeOf(key)]

Events ==
  {[Records |-> <<S3Record(k)>>] : k \in Keys}
    \cup {[Records |-> <<>>],
          [Records |-> <<[bucket |-> Bucket, key |-> KeyCatJpg]>>]}

\* What the bucket holds under the event's key: a decodable image, an object
\* whose body is no image (and whose head response has no ContentType), or
\* nothing.
ImageObject ==
  [ContentType |-> "image/jpeg", LastModified |-> 1, ETag |-> "etag-1",
   body |-> "image"]

OpaqueObject == [LastModified |-> 2, ETag |-> "etag-2", body |-> "corrupt"]

NoObject == [body |-> "missing"]

Sources == {ImageObject, OpaqueObject, NoObject}

Envs ==
  [download_fails : BOOLEAN, remove_fails : BOOLEAN, put_fails : BOOLEAN]

HeadError == "HeadObject: Not Found"

DownloadError == "GetObject: download failed"

OpenError == "cannot identify image file"

RemoveError == "os.remove: OSError"

PutError == "PutObject: failed"

(***************************************************************************)
(* Helpers for dicts and the call trace.                                   *)
(***************************************************************************)
\* d[k] = v
SetItem(d, k, v) == [x \in DOMAIN d \cup {k} |-> IF x = k THEN v ELSE d[x]]

\* datetime.isoformat()
isoformat(t) == <<"iso", t>>

Call(op, ok, arg) == [op |-> op, ok |-> ok, arg |-> arg]

(***************************************************************************)
(* lambda_handler (lines 9-88), step by step.                              *)
(***************************************************************************)
\* Lines 17-19: event['Records'][0]['s3'][...].
ReadEvent(event) ==
  IF Len(event.Records) = 0
  THEN [raised |-> TRUE, error |-> "list index out of range"]
  ELSE LET rec == event.Records[1]
       IN  IF "bucket" \notin DOMAIN rec
           THEN [raised |-> TRUE, error |-> "'bucket'"]
           ELSE IF "key" \notin DOMAIN rec
           THEN [raised |-> TRUE, error |-> "'key'"]
           ELSE IF "size" \notin DOMAIN rec
           THEN [raised |-> TRUE, error |-> "'size'"]
           ELSE [raised |-> FALSE, value |-> rec]

\* head_object answering a missing object with an empty response instead of
\* raising.
head_object_Default(src) ==
  [raised |-> FALSE,
   value  |-> IF src = NoObject THEN [LastModified |-> 0, ETag |-> ""]
              ELSE [k \in DOMAIN src \ {"body"} |-> src[k]]]

\* Line 24: s3_client.head_object.
head_object(src) ==
  IF src = NoObject THEN [raised |-> TRUE, error |-> HeadError]
  ELSE [raised |-> FALSE, value |-> [k \in DOMAIN src \ {"body"} |-> src[k]]]

\* The record with lastModified taken from the clock instead of the head
\* response.
BuildMetadata_StampModified(rec, response, clock) ==
  [fileName         |-> rec.key,
   bucketName       |-> rec.bucket,
   fileSize         |-> rec.size,
   fileSizeReadable |-> format_bytes(rec.size).text,
   contentType      |-> IF "ContentType" \in DOMAIN response
                        THEN response.ContentType ELSE "unknown",
   lastModified     |-> isoformat(clock),
   etag             |-> response.ETag,
   uploadTime       |-> isoformat(clock),
   processedBy      |-> "AWS Lambda"]

\* Lines 27-37.
BuildMetadata(rec, response, clock) ==
  [fileName         |-> rec.key,
   bucketName       |-> rec.bucket,
   fileSize         |-> rec.size,
   fileSizeReadable |-> format_bytes(rec.size).text,
   contentType      |-> IF "ContentType" \in DOMAIN response
                        THEN response.ContentType ELSE "unknown",
   lastModified     |-> isoformat(response.LastModified),
   etag             |-> response.ETag,
   uploadTime       |-> isoformat(clock),
   processedBy      |-> "AWS Lambda"]

\* Lines 48-52: the fields read from the opened image.
ImageFields(metadata) ==
  SetItem(SetItem(SetItem(SetItem(metadata,
    "imageWidth", 640), "imageHeight", 480), "imageFormat", "JPEG"),
    "imageMode", "RGB")

\* Lines 41-59 with the inner try/except removed: a failure propagates.
ProbeImage_NoCatch(metadata, rec, src, env, files) ==
  LET path == DownloadPath(rec.key)
  IN  IF env.download_fails
      THEN [raised |-> TRUE, error |-> DownloadError, metadata |-> metadata,
            files |-> files,
            calls |-> <<Call("download_file", FALSE, [path |-> path])>>]
      ELSE IF src.body # "image"
      THEN [raised |-> TRUE, error |-> OpenError, metadata |-> metadata,
            files |-> files \cup {path},
            calls |-> <<Call("download_file", TRUE, [path |-> path]),
                        Call("Image.open", FALSE, [path |-> path])>>]
      ELSE IF env.remove_fails
      THEN [raised |-> TRUE, error |-> RemoveError,
            metadata |-> ImageFields(metadata),
            files |-> files \cup {path},
            calls |-> <<Call("download_file", TRUE, [path |-> path]),
                        Call("Image.open", TRUE, [path |-> path]),
                        Call("os.remove", FALSE, [path |-> path])>>]
      ELSE [raised |-> FALSE, metadata |-> ImageFields(metadata),
            files |-> files \ {path},
            calls |-> <<Call("download_file", TRUE, [path |-> path]),
                        Call("Image.open", TRUE, [path |-> path]),
                        Call("os.remove", TRUE, [path |-> path])>>]

\* Lines 41-59: download, open, read the fields, remove the scratch file; the
\* first failure jumps to the except clause, which records imageError.
ProbeImage(metadata, rec, src, env, files) ==
  LET path == DownloadPath(rec.key)
  IN  IF env.download_fails
      THEN [raised |-> FALSE,
            metadata |-> SetItem(metadata, "imageError", DownloadError),
            files |-> files,
            calls |-> <<Call("download_file", FALSE, [path |-> path])>>]
      ELSE IF src.body # "image"
      THEN [raised |-> FALSE,
            metadata |-> SetItem(metadata, "imageError", OpenError),
            files |-> files \cup {path},
            calls |-> <<Call("download_file", TRUE, [path |-> path]),
                        Call("Image.open", FALSE, [path |-> path])>>]
      ELSE IF env.remove_fails
      THEN [raised |-> FALSE,
            metadata |-> SetItem(ImageFields(metadata),
                                 "imageError", RemoveError),
            files |-> files \cup {path},
            calls |-> <<Call("download_file", TRUE, [path |-> path]),
                        Call("Image.open", TRUE, [path |-> path]),
                        Call("os.remove", FALSE, [path |-> path])>>]
      ELSE [raised |-> FALSE, metadata |-> ImageFields(metadata),
            files |-> files \ {path},
            calls |-> <<Call("download_file", TRUE, [path |-> path]),
                        Call("Image.open", TRUE, [path |-> path]),
                        Call("os.remove", TRUE, [path |-> path])>>]

\* Lines 63-68: s3_client.put_object.
PutRequest(rec, metadata) ==
  [Bucket |-> rec.bucket, Key |-> MetadataKey(rec.key), Body |-> metadata,
   ContentType |-> "application/json"]

\* put_object whose failure is not raised.
put_object_Silent(store, req, env) ==
  IF env.put_fails THEN [raised |-> FALSE, store |-> store]
  ELSE [raised |-> FALSE,
        store  |-> SetItem(store, <<req.Bucket, req.Key>>,
                           [Body |-> req.Body, ContentType |-> req.ContentType])]

put_object(store, req, env) ==
  IF env.put_fails THEN [raised |-> TRUE, error |-> PutError, store |-> store]
  ELSE [raised |-> FALSE,
        store  |-> SetItem(store, <<req.Bucket, req.Key>>,
                           [Body |-> req.Body, ContentType |-> req.ContentType])]

\* Lines 72-78 and 82-88.
SuccessResponse(metadata) ==
  [statusCode |-> 200,
   body |-> [message |-> "File processed successfully", metadata |-> metadata]]

ErrorResponse(error) ==
  [statusCode |-> 500,
   body |-> [message |-> "Error processing file", error |-> error]]

Outcome(response, files, store, calls) ==
  [response |-> response, files |-> files, store |-> store, calls |-> calls]

\* Lines 39-78, once the event is read and head_object has answered.
\* The inner except clause catches every Exception, so the probing step
\* hands back a record and never raises.
AfterHead(rec, response, src, env, files, store, clock) ==
  LET metadata == BuildMetadata(rec, response, clock)
      headCall == <<Call("head_object", TRUE, [Key |-> rec.key])>>
      probe    == IF is_image(Chars(rec.key))
                  THEN ProbeImage(metadata, rec, src, env, files)
                  ELSE [raised |-> FALSE, metadata |-> metadata,
                        files |-> files, calls |-> <<>>]
  IN  IF probe.raised
      THEN Outcome(ErrorResponse(probe.error), probe.files, store,
                   headCall \o probe.calls)
      ELSE LET req == PutRequest(rec, probe.metadata)
               put == put_object(store, req, env)
               calls == headCall \o probe.calls
                          \o <<Call("put_object", ~env.put_fails, req)>>
           IN  IF put.raised
               THEN Outcome(ErrorResponse(put.error), probe.files, put.store,
                            calls)
               ELSE Outcome(SuccessResponse(probe.metadata), probe.files,
                            put.store, calls)

lambda_handler(event, src, env, files, store, clock) ==
  LET ev == ReadEvent(event)
  IN  IF ev.raised
      THEN Outcome(ErrorResponse(ev.error), files, store, <<>>)
      ELSE LET head == head_object(src)
           IN  IF head.raised
               THEN Outcome(ErrorResponse(head.error), files, store,
                            <<Call("head_object", FALSE, [Key |-> ev.value.key])>>)
               ELSE AfterHead(ev.value, head.value, src, env, files, store,
                              clock)

(***************************************************************************)
(* The state machine: the container's storage view, its scratch area and   *)
(* clock persist across invocations; log records each completed one.       *)
(***************************************************************************)
NotCalled == [done |-> FALSE]

Returned(value) == [done |-> TRUE, value |-> value]

Init ==
  /\ objects = <<>>
  /\ tmp = {}
  /\ now = 10
  /\ log = <<>>
  /\ input = <<>>
  /\ output = NotCalled

Invoke(event, src, env) ==
  /\ \E r \in {lambda_handler(event, src, env, tmp, objects, now)} :
         /\ objects' = r.store
         /\ tmp' = r.files
         /\ now' = now + 1
         /\ log' = Append(log,
                [event    |-> event,
                 src      |-> src,
                 response |-> r.response,
                 calls    |-> r.calls,
                 wrote    |-> {k \in DOMAIN r.store :
                                 \/ k \notin DOMAIN objects
                                 \/ r.store[k] # objects[k]},
                 left     |-> r.files])
  /\ UNCHANGED <<input, output>>

\* The container serves at most MaxInvocations invocations.
Next ==
  /\ Len(log) < MaxInvocations
  /\ \E event \in Events, src \in Sources, env \in Envs :
        Invoke(event, src, env)

Spec == Init /\ [][Next]_vars

(***************************************************************************)
(* format_bytes on its own: the size is drawn from Sizes, one call.        *)
(***************************************************************************)
InitFmt ==
  /\ objects = <<>>
  /\ tmp = {}
  /\ now = 10
  /\ log = <<>>
  /\ input \in Sizes
  /\ output = NotCalled

CallFormatBytes ==
  /\ ~output.done
  /\ output' = Returned(format_bytes(input))
  /\ UNCHANGED <<objects, tmp, now, log, input>>

SpecFmt == InitFmt /\ [][CallFormatBytes]_vars

(***************************************************************************)
(* is_image on its own: the key is drawn from FileNames, one call.         *)
(***************************************************************************)
Stems == {<<>>, <<"a">>, <<"p","/","c","a","t">>}

Separators == {<<>>, <<".">>, <<"_">>}

Endings ==
  {<<"j","p","g">>, <<"J","P","G">>, <<"j","p","e","g">>, <<"J","p","e","g">>,
   <<"p","n","g">>, <<"P","N","G">>, <<"g","i","f">>, <<"b","m","p">>,
   <<"B","m","P">>, <<"w","e","b","p">>, <<"t","i","f","f">>,
   <<"p","d","f">>, <<"j","p">>, <<"j","p","g",".","t","x","t">>,
   <<"j","p","g","/">>, <<>>}

FileNames ==
  {stem \o sep \o ending :
      stem \in Stems, sep \in Separators, ending \in Endings}

InitImg ==
  /\ objects = <<>>
  /\ tmp = {}
  /\ now = 10
  /\ log = <<>>
  /\ input \in FileNames
  /\ output = NotCalled

CallIsImage ==
  /\ ~output.done
  /\ output' = Returned(is_image(input))
  /\ UNCHANGED <<objects, tmp, now, log, input>>

SpecImg == InitImg /\ [][CallIsImage]_vars

(***************************************************************************)
(* Vocabulary of the properties: what an invocation was given and what it  *)
(* was observed to do.                                                     *)
(***************************************************************************)
Entries == {log[i] : i \in 1..Len(log)}

WellFormed(event) ==
  /\ Len(event.Records) > 0
  /\ {"bucket", "key", "size"} \subseteq DOMAIN event.Records[1]

KeyOf(e) == e.event.Records[1].key

CallsTo(e, op) == {i \in 1..Len(e.calls) : e.calls[i].op = op}

Succeeded(e, op) == \E i \in CallsTo(e, op) : e.calls[i].ok

Failed(e, op) == \E i \in CallsTo(e, op) : ~e.calls[i].ok

HeadLookupFailed(e) == WellFormed(e.event) /\ e.src.body = "missing"

HeadLookupOk(e) == WellFormed(e.event) /\ e.src.body # "missing"

ProbeFailed(e) ==
  Failed(e, "download_file") \/ Failed(e, "Image.open")
    \/ Failed(e, "os.remove")

Is200(e) == e.response.statusCode = 200

Is500(e) ==
  /\ e.response.statusCode = 500
  /\ "error" \in DOMAIN e.response.body

ImageFieldNames == {"imageWidth", "imageHeight", "imageFormat", "imageMode"}

\* The request of the invocation's put_object call, when there is exactly one.
PutOf(e) == e.calls[CHOOSE i \in CallsTo(e, "put_object") : TRUE].arg

\* The key without its extension: the extension starts at the last dot of
\* the last path component, provided a character other than a dot precedes
\* it in that component.
ExtensionStarts(key) ==
  {n \in 1..Len(key) :
     /\ key[n] = "."
     /\ \A m \in (n + 1)..Len(key) : key[m] \notin {".", "/"}
     /\ \E m \in 1..(n - 1) :
          /\ key[m] \notin {".", "/"}
          /\ \A q \in m..n : key[q] # "/"}

WithoutExtension(key) ==
  IF ExtensionStarts(key) = {} THEN key
  ELSE SubSeq(key, 1, (CHOOSE n \in ExtensionStarts(key) : TRUE) - 1)

ReportMetadataKey == "metadata/docs/report_metadata.json"

(***************************************************************************)
(* C1.  When the head_object lookup fails, the handler returns statusCode  *)
(* 500 with an `error' field in the body, and the invocation performs no   *)
(* put_object call, no download, and no change to storage.                 *)
(***************************************************************************)
C1_HeadFailureIs500NoWrite ==
  \A e \in Entries :
     HeadLookupFailed(e) =>
        /\ Is500(e)
        /\ CallsTo(e, "put_object") = {}
        /\ CallsTo(e, "download_file") = {}
        /\ e.wrote = {}

C1_Witness ==
  \E e \in Entries :
     /\ HeadLookupFailed(e)
     /\ Failed(e, "head_object")
     /\ Is500(e)

(***************************************************************************)
(* C2.  On an image key with head_object succeeding and put_object not     *)
(* failing, a failure of the download, of the image open, or of the        *)
(* scratch-file removal does not fail the operation: the response is 200,  *)
(* the record written and echoed carries imageError, and for an            *)
(* undecodable body it carries no imageWidth.                              *)
(***************************************************************************)
C2_ProbeFailureDegrades ==
  \A e \in Entries :
     (/\ HeadLookupOk(e)
      /\ is_image(Chars(KeyOf(e)))
      /\ ~Failed(e, "put_object")
      /\ \/ ProbeFailed(e)
         \/ e.src.body = "corrupt")
     =>
        /\ Is200(e)
        /\ "imageError" \in DOMAIN e.response.body.metadata
        /\ Succeeded(e, "put_object")
        /\ PutOf(e).Body = e.response.body.metadata
        /\ e.wrote = {<<PutOf(e).Bucket, PutOf(e).Key>>}
        /\ Failed(e, "Image.open") =>
              "imageWidth" \notin DOMAIN e.response.body.metadata

C2_Witness ==
  \E e \in Entries :
     /\ WellFormed(e.event)
     /\ KeyOf(e) = KeyCatJpg
     /\ e.src.body = "corrupt"
     /\ Failed(e, "Image.open")
     /\ Is200(e)
     /\ "imageError" \in DOMAIN e.response.body.metadata

(***************************************************************************)
(* C3.  Every metadata record returned (and written) for an image key has  *)
(* exactly one of: all four image fields, or imageError.                   *)
(***************************************************************************)
C3_ImageFieldsXorError ==
  \A e \in Entries :
     (WellFormed(e.event) /\ is_image(Chars(KeyOf(e))) /\ Is200(e)) =>
        LET fields == DOMAIN e.response.body.metadata
        IN  (ImageFieldNames \subseteq fields) # ("imageError" \in fields)

(***************************************************************************)
(* C4.  An invocation that downloaded the object to its scratch path has   *)
(* deleted that file by the time it returns, image decoding failing or     *)
(* not.  Stated for the invocations in which no os.remove call failed.     *)
(***************************************************************************)
C4_ScratchFileDeleted ==
  \A e \in Entries :
     (/\ WellFormed(e.event)
      /\ Succeeded(e, "download_file")
      /\ ~Failed(e, "os.remove"))
     => DownloadPath(KeyOf(e)) \notin e.left

(***************************************************************************)
(* C5.  format_bytes returns "<value> <unit>", value with two decimals,    *)
(* unit among B, KB, MB, GB, TB, PB, and the printed value is below 1024   *)
(* for every unit except PB; 0 -> "0.00 B", 1023 -> "1023.00 B",           *)
(* 1024 -> "1.00 KB", 1048576 -> "1.00 MB", 1099511627776 -> "1.00 TB".    *)
(***************************************************************************)
C5_PrintedValueBelow1024 ==
  output.done =>
     LET r == output.value
     IN  /\ r.unit \in {"B", "KB", "MB", "GB", "TB", "PB"}
         /\ r.cents \in 0..99
         /\ r.text = ToString(r.whole) \o "." \o TwoDigits(r.cents)
                        \o " " \o r.unit
         /\ r.unit # "PB" => r.whole < 1024
         /\ input = <<0, 0, 0, 0, 0, 0>> => r.text = "0.00 B"
         /\ input = <<1023, 0, 0, 0, 0, 0>> => r.text = "1023.00 B"
         /\ input = <<0, 1, 0, 0, 0, 0>> => r.text = "1.00 KB"
         /\ input = <<0, 0, 1, 0, 0, 0>> => r.text = "1.00 MB"
         /\ input = <<0, 0, 0, 0, 1, 0>> => r.text = "1.00 TB"

(***************************************************************************)
(* C6.  As claimed: is_image is true iff the lowercased key ends with one  *)
(* of jpg, jpeg, png, gif, bmp, webp.                                      *)
(***************************************************************************)
BareExtensions ==
  {<<"j","p","g">>, <<"j","p","e","g">>, <<"p","n","g">>, <<"g","i","f">>,
   <<"b","m","p">>, <<"w","e","b","p">>}

UpperOf(c) ==
  IF \E i \in 1..Len(LowerChars) : LowerChars[i] = c
  THEN UpperChars[CHOOSE i \in 1..Len(LowerChars) : LowerChars[i] = c]
  ELSE c

\* name ends with ext, each letter in either case.
EndsWithAnyCase(name, ext) ==
  /\ Len(ext) <= Len(name)
  /\ \A i \in 1..Len(ext) :
        name[Len(name) - Len(ext) + i] \in {ext[i], UpperOf(ext[i])}

C6_EndsWithBareExtension ==
  output.done =>
     (output.value <=> \E ext \in BareExtensions : EndsWithAnyCase(input, ext))

(***************************************************************************)
(* C6, amended.  is_image is true iff the key ends, letters in either      *)
(* case, with one of .jpg, .jpeg, .png, .gif, .bmp, .webp (the dot         *)
(* included); "a.PNG" is an image and "a.tiff" is not.                     *)
(***************************************************************************)
C6_EndsWithDottedExtension ==
  output.done =>
     /\ output.value <=>
           \E ext \in BareExtensions : EndsWithAnyCase(input, <<".">> \o ext)
     /\ input = <<"a",".","P","N","G">> => output.value
     /\ input = <<"a",".","t","i","f","f">> => ~output.value

C6_Witness ==
  /\ output.done
  /\ input = <<"a",".","P","N","G">>
  /\ output.value

(***************************************************************************)
(* C7.  On a non-image key with head_object and put_object succeeding, the *)
(* handler downloads nothing, returns 200, the record has no image fields  *)
(* and no imageError, and the single put_object goes to                    *)
(* metadata/<key without its extension>_metadata.json with content type    *)
(* application/json; docs/report.pdf goes to                               *)
(* metadata/docs/report_metadata.json.                                     *)
(***************************************************************************)
C7_NonImagePath ==
  \A e \in Entries :
     (/\ HeadLookupOk(e)
      /\ ~is_image(Chars(KeyOf(e)))
      /\ ~Failed(e, "put_object"))
     =>
        /\ CallsTo(e, "download_file") = {}
        /\ Is200(e)
        /\ DOMAIN e.response.body.metadata
              \cap (ImageFieldNames \cup {"imageError"}) = {}
        /\ Cardinality(CallsTo(e, "put_object")) = 1
        /\ PutOf(e).Key =
              "metadata/" \o Join(WithoutExtension(Chars(KeyOf(e))))
                 \o "_metadata.json"
        /\ PutOf(e).ContentType = "application/json"
        /\ PutOf(e).Body = e.response.body.metadata
        /\ KeyOf(e) = KeyReport => PutOf(e).Key = ReportMetadataKey

C7_Witness ==
  \E e \in Entries :
     /\ WellFormed(e.event)
     /\ KeyOf(e) = KeyReport
     /\ Is200(e)
     /\ PutOf(e).Key = ReportMetadataKey

(***************************************************************************)
(* C8.  As claimed: two successful invocations with the same event and the *)
(* same source object produce records equal in every field except          *)
(* uploadTime, and write to the same output key.                           *)
(***************************************************************************)
SameExceptUploadTime(m1, m2) ==
  /\ DOMAIN m1 = DOMAIN m2
  /\ \A k \in DOMAIN m1 \ {"uploadTime"} : m1[k] = m2[k]

SameRecords(e, f) ==
  /\ SameExceptUploadTime(e.response.body.metadata, f.response.body.metadata)
  /\ SameExceptUploadTime(PutOf(e).Body, PutOf(f).Body)
  /\ PutOf(e).Key = PutOf(f).Key
  /\ PutOf(e).Bucket = PutOf(f).Bucket

SameProbeOutcome(e, f) ==
  /\ Failed(e, "download_file") <=> Failed(f, "download_file")
  /\ Failed(e, "os.remove") <=> Failed(f, "os.remove")

C9_DistinctUploadsDistinctOutputs ==
  \A e, f \in Entries :
     (/\ Is200(e)
      /\ Is200(f)
      /\ e.event.Records[1].bucket = f.event.Records[1].bucket
      /\ KeyOf(e) # KeyOf(f))
     => PutOf(e).Key # PutOf(f).Key

(***************************************************************************)
(* C10.  Every invocation returns one response, with statusCode 200 or     *)
(* 500; it is 200 exactly when the event fields were read, head_object     *)
(* succeeded and put_object succeeded, in that order with the download     *)
(* strictly between them; otherwise it is 500 with an `error' message.  At *)
(* most one put_object is issued, and a 500 response means the invocation  *)
(* wrote no object.                                                        *)
(***************************************************************************)
InOrder(e) ==
  \A i \in 1..Len(e.calls) :
     /\ e.calls[i].op = "head_object" <=> i = 1
     /\ e.calls[i].op = "put_object" => i = Len(e.calls)
     /\ e.calls[i].op = "download_file" => i = 2
     /\ (e.calls[i].op \in {"head_object", "put_object"} /\ ~e.calls[i].ok)
           => i = Len(e.calls)

C10_OneResponse ==
  \A e \in Entries :
     /\ Is200(e) \/ Is500(e)
     /\ Is200(e) <=>
           /\ WellFormed(e.event)
           /\ Succeeded(e, "head_object")
           /\ Succeeded(e, "put_object")
     /\ InOrder(e)
     /\ Cardinality(CallsTo(e, "put_object")) <= 1
     /\ Is500(e) => e.wrote = {}
     /\ Is200(e) => e.wrote = {<<PutOf(e).Bucket, PutOf(e).Key>>}
     /\ ~WellFormed(e.event) => e.calls = <<>>

C10_Witness ==
  \E e, f \in Entries :
     /\ Failed(e, "put_object")
     /\ Succeeded(e, "download_file")
     /\ Is500(e)
     /\ Is200(f)

=============================================================================
